---- MODULE Spec2Model ----
(***************************************************************************)
(* State-machine model of the batch pipeline of equitable-batch-api:       *)
(*   main.py          main()            the five-step top-level pipeline    *)
(*   helpers/batch.py run_batch(), process_chunks(), handle_interrupt()     *)
(*   helpers/models.py prepare_scenarios()                                  *)
(*   helpers/models.py ScenarioResult.from_directory, __getitem__           *)
(*   helpers/aggregate.py aggregate_scenario_results, calculate_cte0,       *)
(*                        calculate_cte80, run_aggregate                    *)
(* helpers/threads.py (run_threads) and helpers/chunk.py (ChunkGenerator,   *)
(* ChunkProcessor) are imported by batch.py but are not among the source    *)
(* files; their behaviour is modelled from sections 4.1, 4.3 and 4.4 of     *)
(* the specification.                                                       *)
(*                                                                          *)
(* The main thread is a program counter pc over the statements of main()    *)
(* and run_batch().  Python delivers a signal between two statements of     *)
(* the main thread, so Interrupt may fire at every pc.  An exception is     *)
(* routed by Python's try/except/finally rules (Unwind).                    *)
(*                                                                          *)
(* The remote pipeline handle (cspark.sdk Pipeline) is the external         *)
(* collaborator: state is "open" after creation, dispose() leaves it        *)
(* "closed", cancel() leaves it "cancelled"; these calls succeed on an open *)
(* pipeline.  cancel() on a pipeline that is no longer open either returns  *)
(* (the specification calls it idempotent) or raises (the SDK rejects it):  *)
(* both outcomes are kept.                                                  *)
(*                                                                          *)
(* The run of main() is Spec.  The data functions are checked on their own: *)
(* ChunkSpec (the chunk source), AggSpec (aggregation under reordering),    *)
(* LoadSpec (loading the output directory), RankSpec (ranking and CTE80).   *)
(***************************************************************************)
EXTENDS Naturals, Sequences, FiniteSets

\* ---- program constants -------------------------------------------------
NumChunk == 18
ChunkSize == 48
TargetTenths == 9

\* ---- bounds of the model -----------------------------------------------
\* METADATA['max_runners'] is 100 = 10 * 10; the model keeps the factor 10
\* (so that target * max_capacity stays a whole number, as in the program)
\* and scales the other factor, so that NumChunk chunks can saturate it.
CapacityScale == 1
\* run_threads is called with threads_up=1; the admission rule is stated for
\* any number of submission workers.
ThreadsUp == 2
\* SIGINT deliveries per run.
MaxInterrupts == 2

MaxRunners == 10 * CapacityScale

\* Sizes of the inputs handed to the ChunkGenerator.
MaxRecords == 7
MaxChunkSize == 3
MaxChunkCount == 3

\* Rows (input row with its yearly report) in a list of ScenarioResults.
MaxAggRows == 3
\* Python floats have a 53-bit significand; the model's floats keep this many
\* bits, so that sums of a few small numbers already round.
MantissaBits == 2

\* Rows of an input or output file in the output directory.
MaxFileRows == 2

\* Scenarios in a ranking (the top fifth has two members from ten on).
MaxScenarios == 10

VARIABLES
    pc,          \* statement the main thread is at
    exc,         \* exception propagating through run_batch ("none" if none)
    exitCode,    \* process exit status (meaningful when pc = "exit")
    inputDir,    \* condition of Config.INPUT_DIR
    pipeline,    \* "none" before batches.of, else pipeline.state
    handler,     \* TRUE once signal.signal installed handle_interrupt
    calls,       \* remote cleanup operations invoked, in order
    nInterrupts, \* SIGINTs delivered so far
    submitted,   \* chunks pulled from the ChunkGenerator
    holding,     \* submission workers that admitted a chunk, not yet sent
    inFlight,    \* the scheduler's in-flight counter
    running,     \* chunks executing at the remote service
    failed,      \* chunks whose remote execution failed
    buffer,      \* chunk results in the ChunkProcessor's buffer
    saved,       \* chunk results flushed to storage
    nAccept,     \* calls of the sink's accept
    runState,    \* Idle / Running / Completed / Cancelled / Failed
    finalSave,   \* what process_chunks did at lines 30-31
    bufAtReturn, \* buffer size when run_threads returned
    fatal,       \* a remote call or the sink's save raised inside run_batch
    caughtOpen,  \* such an exception was caught while the pipeline was open
    intInFlight, \* handle_interrupt ran on the open pipeline with chunks in flight
    reported,    \* main logged '[Step 2/5] Batch process completed!'
    aggregated,  \* main ran steps 3-5
    cg,          \* the ChunkGenerator: its source, its position, what it emitted
    agg,         \* a list of ScenarioResults, a reordering of it, the two aggregations
    ld,          \* an output directory and what ScenarioResult.from_directory loaded
    rk           \* scenario totals, the ranking made of them, the CTE80 averages

mainVars == <<pc, exc, exitCode>>
remoteVars == <<pipeline, handler, calls>>
schedVars == <<submitted, holding, inFlight, running, failed, buffer, saved, nAccept>>
ghostVars == <<runState, finalSave, bufAtReturn, fatal, caughtOpen, intInFlight, reported, aggregated>>
\* The data the pure functions of the pipeline work on; a run of main() is
\* modelled by its control flow and leaves them alone.
dataVars == <<cg, agg, ld, rk>>
vars == <<pc, exc, exitCode, inputDir, pipeline, handler, calls, nInterrupts,
          submitted, holding, inFlight, running, failed, buffer, saved, nAccept,
          runState, finalSave, bufAtReturn, fatal, caughtOpen, intInFlight, reported, aggregated,
          cg, agg, ld, rk>>

InputDirs == {"missing", "unreadable", "empty", "ok"}

\* The process before main() ran.
RunInit ==
    /\ pc = "prepare"
    /\ exc = "none"
    /\ exitCode = 0
    /\ pipeline = "none"
    /\ handler = FALSE
    /\ calls = <<>>
    /\ nInterrupts = 0
    /\ submitted = 0
    /\ holding = 0
    /\ inFlight = 0
    /\ running = 0
    /\ failed = 0
    /\ buffer = 0
    /\ saved = 0
    /\ nAccept = 0
    /\ runState = "Idle"
    /\ finalSave = "pending"
    /\ bufAtReturn = 0
    /\ fatal = FALSE
    /\ caughtOpen = FALSE
    /\ intInFlight = FALSE
    /\ reported = FALSE
    /\ aggregated = FALSE

\* No data loaded.
CgIdle == [records |-> <<>>, size |-> 1, count |-> 0, pos |-> 1, chunks |-> <<>>, done |-> FALSE]
AggIdle == [in |-> <<>>, perm |-> <<>>, out |-> <<>>]
LdIdle == [dir |-> [input |-> <<>>, output |-> <<>>], loaded |-> <<>>, done |-> FALSE, probe |-> <<>>]
RkIdle == [results |-> <<>>, ranking |-> <<>>, winners |-> <<>>, cte80 |-> <<>>, stage |-> "none"]

Init ==
    /\ RunInit
    /\ inputDir \in InputDirs
    /\ cg = CgIdle
    /\ agg = AggIdle
    /\ ld = LdIdle
    /\ rk = RkIdle

\* ---- Python's try / except Exception / finally of run_batch -------------
TryBody == {"create", "install", "generator", "run_threads", "save", "dispose", "status"}
ExceptBlock == {"except", "except_cancel"}
FinallyBlock == {"finally", "fin_dispose", "fin_close"}

\* Where the main thread goes when exception e is raised at statement p:
\* `except Exception` catches only Exception raised in the try body;
\* SystemExit and KeyboardInterrupt go straight to finally; anything raised
\* inside the except block runs finally and keeps propagating; anything raised
\* inside finally, or outside run_batch, leaves main() and ends the process.
UnwindPc(p, e) ==
    IF p \in TryBody THEN (IF e = "Exception" THEN "except" ELSE "finally")
    ELSE IF p \in ExceptBlock THEN "finally"
    ELSE "exit"

UnwindExc(p, e) ==
    IF p \in TryBody /\ e = "Exception" THEN "none" ELSE e

ExitStatus(e) == IF e \in {"none", "SystemExit"} THEN 0 ELSE 1

Raise(e) ==
    /\ pc' = UnwindPc(pc, e)
    /\ exc' = UnwindExc(pc, e)
    /\ exitCode' = IF UnwindPc(pc, e) = "exit" THEN ExitStatus(e) ELSE exitCode

Goto(p) == pc' = p /\ UNCHANGED <<exc, exitCode>>

\* The spec's run state follows the first exit from Running.
FailState == IF runState \in {"Idle", "Running"} THEN "Failed" ELSE runState
CancelState == IF runState \in {"Idle", "Running"} THEN "Cancelled" ELSE runState

\* ---- main(), step 1 ------------------------------------------------------
\* prepare_scenarios: os.listdir raises for a missing or unreadable directory
\* (uncaught in main); with no csv file it logs a warning and returns.
PrepareScenarios ==
    /\ pc = "prepare"
    /\ IF inputDir \in {"missing", "unreadable"}
          THEN pc' = "exit" /\ exc' = "Exception" /\ exitCode' = 1
          ELSE Goto("create")
    /\ UNCHANGED <<inputDir, dataVars, remoteVars, nInterrupts, schedVars, ghostVars>>

\* ---- run_batch -----------------------------------------------------------
\* lines 41-43: batches.create and batches.of.
CreatePipeline ==
    /\ pc = "create"
    /\ pipeline' = "open"
    /\ Goto("install")
    /\ UNCHANGED <<inputDir, dataVars, handler, calls, nInterrupts, schedVars, ghostVars>>

\* lines 41-42: the remote service refuses or cannot be reached.
CreateFails ==
    /\ pc = "create"
    /\ Raise("Exception")
    /\ fatal' = TRUE
    /\ runState' = FailState
    /\ UNCHANGED <<inputDir, dataVars, remoteVars, nInterrupts, schedVars,
                   finalSave, bufAtReturn, caughtOpen, intInFlight, reported, aggregated>>

\* line 44: signal.signal(SIGINT, ...)
InstallHandler ==
    /\ pc = "install"
    /\ handler' = TRUE
    /\ Goto("generator")
    /\ UNCHANGED <<inputDir, dataVars, pipeline, calls, nInterrupts, schedVars, ghostVars>>

\* ChunkGenerator(Config.INPUT_DIR): SourceError when no eligible file.
SourceOk == inputDir = "ok"

\* lines 46-47 and 15-16: ChunkProcessor and ChunkGenerator are constructed.
MakeGenerator ==
    /\ pc = "generator"
    /\ IF SourceOk
          THEN Goto("run_threads") /\ runState' = "Running"
          ELSE Raise("Exception") /\ runState' = FailState
    /\ UNCHANGED <<inputDir, dataVars, remoteVars, nInterrupts, schedVars,
                   finalSave, bufAtReturn, fatal, caughtOpen, intInFlight, reported, aggregated>>

\* ---- run_threads (helpers/threads.py) and the ChunkProcessor sink -----------
\* Faulty variant: the count is raised only when the chunk is sent, so a second
\* submitter can pass the check on the count the first one saw.
AdmissionCountStale == running

\* The count the admission check reads: the in-flight counter, which an
\* admitting worker raises in the same critical section.
AdmissionCount == inFlight

\* Admission policy: admit only while in_flight < target * max_capacity.
AdmitAllowed(n) == n * 10 < TargetTenths * MaxRunners

\* Faulty variant: a finished chunk keeps its admission capacity.
ReleaseLeak(n) == n

\* A finished chunk, completed or failed, frees its admission capacity.
Release(n) == n - 1

\* Submission loop: pull the next chunk and admit it (check and count as one
\* atomic step).
Admit ==
    /\ pc = "run_threads"
    /\ holding < ThreadsUp
    /\ submitted < NumChunk
    /\ AdmitAllowed(AdmissionCount)
    /\ submitted' = submitted + 1
    /\ holding' = holding + 1
    /\ inFlight' = inFlight + 1
    /\ UNCHANGED <<mainVars, inputDir, dataVars, remoteVars, nInterrupts,
                   running, failed, buffer, saved, nAccept, ghostVars>>

\* Submission loop: hand the admitted chunk to the remote service.
Submit ==
    /\ pc = "run_threads"
    /\ holding > 0
    /\ holding' = holding - 1
    /\ running' = running + 1
    /\ UNCHANGED <<mainVars, inputDir, dataVars, remoteVars, nInterrupts,
                   submitted, inFlight, failed, buffer, saved, nAccept, ghostVars>>

\* Collection loop: a chunk completed; its result goes to the sink's accept,
\* which keeps it in the buffer.
CollectCompleted ==
    /\ pc = "run_threads"
    /\ running > 0
    /\ running' = running - 1
    /\ inFlight' = Release(inFlight)
    /\ nAccept' = nAccept + 1
    /\ buffer' = buffer + 1
    /\ UNCHANGED <<mainVars, inputDir, dataVars, remoteVars, nInterrupts,
                   submitted, holding, failed, saved, ghostVars>>

\* Collection loop: as CollectCompleted, and the accept reaches the sink's
\* buffering threshold, so the buffer is flushed to storage and cleared.
CollectAndFlush ==
    /\ pc = "run_threads"
    /\ running > 0
    /\ running' = running - 1
    /\ inFlight' = Release(inFlight)
    /\ nAccept' = nAccept + 1
    /\ saved' = saved + buffer + 1
    /\ buffer' = 0
    /\ UNCHANGED <<mainVars, inputDir, dataVars, remoteVars, nInterrupts,
                   submitted, holding, failed, ghostVars>>

\* Collection loop: a chunk failed remotely; recorded, capacity freed, the run
\* goes on.
CollectFailed ==
    /\ pc = "run_threads"
    /\ running > 0
    /\ running' = running - 1
    /\ inFlight' = Release(inFlight)
    /\ failed' = failed + 1
    /\ UNCHANGED <<mainVars, inputDir, dataVars, remoteVars, nInterrupts,
                   submitted, holding, buffer, saved, nAccept, ghostVars>>

\* The worker loops end: source exhausted and nothing in flight.
ThreadsReturn ==
    /\ pc = "run_threads"
    /\ submitted = NumChunk
    /\ inFlight = 0
    /\ Goto("save")
    /\ bufAtReturn' = buffer
    /\ UNCHANGED <<inputDir, dataVars, remoteVars, nInterrupts, schedVars,
                   runState, finalSave, fatal, caughtOpen, intInFlight, reported, aggregated>>

\* An unexpected exception (remote unavailable, a failed threshold flush)
\* leaves run_threads in the main thread.
RunThreadsRaises ==
    /\ pc = "run_threads"
    /\ Raise("Exception")
    /\ fatal' = TRUE
    /\ runState' = FailState
    /\ UNCHANGED <<inputDir, dataVars, remoteVars, nInterrupts, schedVars,
                   finalSave, bufAtReturn, caughtOpen, intInFlight, reported, aggregated>>

\* ---- process_chunks, lines 30-33 -------------------------------------------
\* Faulty variant: save whatever the buffer holds.
ShouldSaveAlways(b) == TRUE

\* Faulty variant: the end-of-stream save is left out.
ShouldSaveNever(b) == FALSE

\* `if not processor.is_empty`
ShouldSave(b) == b > 0

\* lines 30-33: save the rest of the buffer if there is any, and return.
ProcessSave ==
    /\ pc = "save"
    /\ IF ShouldSave(buffer)
          THEN saved' = saved + buffer /\ buffer' = 0 /\ finalSave' = "saved"
          ELSE UNCHANGED <<saved, buffer>> /\ finalSave' = "skipped"
    /\ Goto("dispose")
    /\ runState' = "Completed"
    /\ UNCHANGED <<inputDir, dataVars, remoteVars, nInterrupts, submitted, holding, inFlight,
                   running, failed, nAccept,
                   bufAtReturn, fatal, caughtOpen, intInFlight, reported, aggregated>>

\* line 31: processor.save() fails to persist.
SaveFails ==
    /\ pc = "save"
    /\ ShouldSave(buffer)
    /\ Raise("Exception")
    /\ finalSave' = "failed"
    /\ fatal' = TRUE
    /\ runState' = FailState
    /\ UNCHANGED <<inputDir, dataVars, remoteVars, nInterrupts, schedVars,
                   bufAtReturn, caughtOpen, intInFlight, reported, aggregated>>

\* ---- run_batch, lines 48-61 -------------------------------------------------
\* line 48: pipeline.dispose() on the normal path.
Dispose ==
    /\ pc = "dispose"
    /\ calls' = Append(calls, "dispose")
    /\ pipeline' = "closed"
    /\ Goto("status")
    /\ UNCHANGED <<inputDir, dataVars, handler, nInterrupts, schedVars, ghostVars>>

\* lines 50-51: get_status and the throughput log line.
GetStatus ==
    /\ pc = "status"
    /\ Goto("finally")
    /\ UNCHANGED <<inputDir, dataVars, remoteVars, nInterrupts, schedVars, ghostVars>>

\* line 50: get_status raises.
StatusFails ==
    /\ pc = "status"
    /\ Raise("Exception")
    /\ fatal' = TRUE
    /\ UNCHANGED <<inputDir, dataVars, remoteVars, nInterrupts, schedVars,
                   runState, finalSave, bufAtReturn, caughtOpen, intInFlight,
                   reported, aggregated>>

\* Faulty variant: the error path does not cancel.
CancelOnErrorNever(st) == FALSE

\* line 54: `if pipeline and pipeline.state == 'open'`
CancelOnError(st) == st = "open"

\* lines 52-54: the exception is logged (and thereby swallowed) and the state
\* of the pipeline is tested.
ExceptCheck ==
    /\ pc = "except"
    /\ caughtOpen' = (caughtOpen \/ pipeline = "open")
    /\ IF CancelOnError(pipeline) THEN Goto("except_cancel") ELSE Goto("finally")
    /\ UNCHANGED <<inputDir, dataVars, remoteVars, nInterrupts, schedVars,
                   runState, finalSave, bufAtReturn, fatal, intInFlight,
                   reported, aggregated>>

\* lines 55-56: pipeline.cancel() on the error path.
ExceptCancel ==
    /\ pc = "except_cancel"
    /\ calls' = Append(calls, "cancel")
    /\ pipeline' = IF pipeline = "open" THEN "cancelled" ELSE pipeline
    /\ Goto("finally")
    /\ UNCHANGED <<inputDir, dataVars, handler, nInterrupts, schedVars, ghostVars>>

\* line 59: `if pipeline.state == 'open'`
DisposeInFinally(st) == st = "open"

\* The end of the finally block: a propagating exception leaves main() and
\* ends the process, otherwise run_batch returns to main().
Leave ==
    /\ pc' = IF exc = "none" THEN "step2_done" ELSE "exit"
    /\ exitCode' = IF exc = "none" THEN exitCode ELSE ExitStatus(exc)
    /\ UNCHANGED exc

\* lines 57-59: the finally block starts.
FinallyCheck ==
    /\ pc = "finally"
    /\ IF pipeline = "none" THEN Leave
       ELSE IF DisposeInFinally(pipeline) THEN Goto("fin_dispose")
       ELSE Goto("fin_close")
    /\ UNCHANGED <<inputDir, dataVars, remoteVars, nInterrupts, schedVars, ghostVars>>

\* line 60: pipeline.dispose() in the finally block.
FinDispose ==
    /\ pc = "fin_dispose"
    /\ calls' = Append(calls, "dispose")
    /\ pipeline' = IF pipeline = "open" THEN "closed" ELSE pipeline
    /\ Goto("fin_close")
    /\ UNCHANGED <<inputDir, dataVars, handler, nInterrupts, schedVars, ghostVars>>

\* line 61: pipeline.close().
FinClose ==
    /\ pc = "fin_close"
    /\ calls' = Append(calls, "close")
    /\ Leave
    /\ UNCHANGED <<inputDir, dataVars, pipeline, handler, nInterrupts, schedVars, ghostVars>>

\* ---- main(), steps 2-5 -------------------------------------------------------
\* main.py line 34: run_batch returned, the batch step is reported completed.
ReportBatch ==
    /\ pc = "step2_done"
    /\ reported' = TRUE
    /\ Goto("aggregate")
    /\ UNCHANGED <<inputDir, dataVars, remoteVars, nInterrupts, schedVars,
                   runState, finalSave, bufAtReturn, fatal, caughtOpen, intInFlight,
                   aggregated>>

\* main.py lines 38-48: run_aggregate, run_cte0_calculation, run_cte80_calculation.
Aggregate ==
    /\ pc = "aggregate"
    /\ aggregated' = TRUE
    /\ Goto("done")
    /\ UNCHANGED <<inputDir, dataVars, remoteVars, nInterrupts, schedVars,
                   runState, finalSave, bufAtReturn, fatal, caughtOpen, intInFlight,
                   reported>>

\* main.py lines 52-60: the summary; main returns and the process ends with 0.
Finish ==
    /\ pc = "done"
    /\ pc' = "exit"
    /\ exitCode' = 0
    /\ UNCHANGED <<exc, inputDir, dataVars, remoteVars, nInterrupts, schedVars, ghostVars>>

\* ---- SIGINT --------------------------------------------------------------------
\* What pipeline.cancel() can do in state st.
CancelOutcomes(st) == IF st = "open" THEN {"ok"} ELSE {"ok", "raise"}

\* handle_interrupt, lines 64-70: cancel, then sys.exit(0).  The pipeline it
\* closes over is always set when the handler is installed.
HandleInterrupt ==
    /\ calls' = Append(calls, "cancel")
    /\ pipeline' = IF pipeline = "open" THEN "cancelled" ELSE pipeline
    /\ intInFlight' = (intInFlight \/ (inFlight > 0 /\ pipeline = "open"))
    /\ runState' = CancelState
    /\ \E outcome \in CancelOutcomes(pipeline) :
          Raise(IF outcome = "ok" THEN "SystemExit" ELSE "Exception")
    /\ UNCHANGED <<handler, finalSave, bufAtReturn, fatal, caughtOpen, reported, aggregated>>

\* Python's default SIGINT handler, before line 44 ran: KeyboardInterrupt.
DefaultSigint ==
    /\ Raise("KeyboardInterrupt")
    /\ runState' = CancelState
    /\ UNCHANGED <<remoteVars, finalSave, bufAtReturn, fatal, caughtOpen, intInFlight,
                   reported, aggregated>>

\* A SIGINT is delivered to the main thread between two of its statements.
Interrupt ==
    /\ pc # "exit"
    /\ nInterrupts < MaxInterrupts
    /\ nInterrupts' = nInterrupts + 1
    /\ IF handler THEN HandleInterrupt ELSE DefaultSigint
    /\ UNCHANGED <<inputDir, dataVars, schedVars>>

\* ---- specifications -------------------------------------------------------------
\* The steps of a run in which no remote call or save raises and no signal
\* arrives (single chunks may still fail remotely).  FinDispose is not among
\* them: line 60 is reached only when a signal arrives before line 44 ran.
NextOk ==
    \/ PrepareScenarios
    \/ CreatePipeline
    \/ InstallHandler
    \/ MakeGenerator
    \/ Admit
    \/ Submit
    \/ CollectCompleted
    \/ CollectAndFlush
    \/ CollectFailed
    \/ ThreadsReturn
    \/ ProcessSave
    \/ Dispose
    \/ GetStatus
    \/ ExceptCheck
    \/ ExceptCancel
    \/ FinallyCheck
    \/ FinClose
    \/ ReportBatch
    \/ Aggregate
    \/ Finish

Next ==
    \/ NextOk
    \/ CreateFails
    \/ RunThreadsRaises
    \/ SaveFails
    \/ StatusFails
    \/ FinDispose
    \/ Interrupt

Spec == Init /\ [][Next]_vars

\* The threads keep being scheduled and the remote service resolves what it
\* was given: some enabled step of the run is eventually taken.
LiveSpec == Init /\ [][NextOk]_vars /\ WF_vars(NextOk)

\* ---- helpers/chunk.py: ChunkGenerator (section 4.1 of the specification) ----
Min(a, b) == IF a <= b THEN a ELSE b
Max(a, b) == IF a >= b THEN a ELSE b

\* The input records in source order; a record is known by its position.
SourceRecords(n) == [i \in 1..n |-> i]

\* Faulty variant: a chunk takes one record more than the maximum.
ChunkEndLong(pos, size, n) == Min(pos + size, n)

\* Last record of the chunk that starts at record pos.
ChunkEnd(pos, size, n) == Min(pos + size - 1, n)

\* The generator still has a chunk to give: fewer than `count` emitted and
\* records left.
HasNextChunk ==
    /\ Len(cg.chunks) < cg.count
    /\ cg.pos <= Len(cg.records)

\* next(): the next chunk, or end-of-stream.
NextChunk ==
    /\ ~cg.done
    /\ IF HasNextChunk
          THEN LET last == ChunkEnd(cg.pos, cg.size, Len(cg.records))
               IN  cg' = [cg EXCEPT !.chunks = Append(@, SubSeq(cg.records, cg.pos, last)),
                                    !.pos = last + 1]
          ELSE cg' = [cg EXCEPT !.done = TRUE]
    /\ UNCHANGED <<mainVars, inputDir, remoteVars, nInterrupts, schedVars, ghostVars,
                   agg, ld, rk>>

\* A generator over n records with chunk size s and chunk count c.
ChunkInit ==
    /\ RunInit
    /\ inputDir = "ok"
    /\ \E n \in 0..MaxRecords, s \in 1..MaxChunkSize, c \in 1..MaxChunkCount :
          cg = [records |-> SourceRecords(n), size |-> s, count |-> c,
                pos |-> 1, chunks |-> <<>>, done |-> FALSE]
    /\ agg = AggIdle
    /\ ld = LdIdle
    /\ rk = RkIdle

ChunkSpec == ChunkInit /\ [][NextChunk]_vars

\* ---- floating-point addition, as the sums of aggregate.py perform it -------
RECURSIVE Pow2(_)
Pow2(k) == IF k = 0 THEN 1 ELSE 2 * Pow2(k - 1)

\* Spacing of the representable numbers around x.
Ulp(x) ==
    LET e == CHOOSE k \in 0..x : x < Pow2(MantissaBits + k)
                                 /\ (k = 0 \/ x >= Pow2(MantissaBits + k - 1))
    IN  Pow2(e)

\* Round to the nearest representable number, ties to the even significand.
Round(x) ==
    LET u == Ulp(x)
        q == x \div u
        r == x % u
    IN  IF 2 * r < u THEN q * u
        ELSE IF 2 * r > u THEN (q + 1) * u
        ELSE IF q % 2 = 0 THEN q * u
        ELSE (q + 1) * u

FAdd(a, b) == Round(a + b)

\* ---- helpers/aggregate.py: aggregate_scenario_results, calculate_cte0 -------
RECURSIVE Concat(_)
Concat(ss) == IF ss = <<>> THEN <<>> ELSE Head(ss) \o Concat(Tail(ss))

\* output_df[col].sum() of one yearly report.
RECURSIVE ColumnSum(_, _)
ColumnSum(report, col) ==
    IF report = <<>> THEN 0
    ELSE FAdd(ColumnSum(SubSeq(report, 1, Len(report) - 1), col),
              report[Len(report)][col])

\* A Python dict: its entries in insertion order.
HasKey(d, k) == \E i \in DOMAIN d : d[i].key = k

\* scenario_totals[k] += v on a defaultdict(float), line 44.
AddTo(d, k, v) ==
    IF HasKey(d, k)
        THEN [i \in DOMAIN d |-> IF d[i].key = k
                                    THEN [key |-> k, val |-> FAdd(d[i].val, v)]
                                    ELSE d[i]]
        ELSE Append(d, [key |-> k, val |-> FAdd(0, v)])

\* Lines 29-44 over the (input row, output report) pairs in iteration order.
RECURSIVE ScenarioTotals(_, _)
ScenarioTotals(rows, d) ==
    IF rows = <<>> THEN d
    ELSE ScenarioTotals(Tail(rows),
             AddTo(d, Head(rows).scenario,
                   FAdd(ColumnSum(Head(rows).report, "db"),
                        ColumnSum(Head(rows).report, "mb"))))

\* The entries of d ordered by key (keys of a dict are distinct).
RECURSIVE SortByKey(_)
SortByKey(d) ==
    IF d = <<>> THEN <<>>
    ELSE LET m == CHOOSE i \in DOMAIN d : \A j \in DOMAIN d : d[i].key <= d[j].key
         IN  <<d[m]>> \o SortByKey([i \in 1..(Len(d) - 1) |-> IF i < m THEN d[i] ELSE d[i + 1]])

\* Faulty variant: the frame keeps the dict's insertion order.
InsertionOrder(d) == d

\* ranking_df.sort_values('Scenario'), line 59.
SortByScenario(d) == SortByKey(d)

aggregate_scenario_results(results) ==
    SortByScenario(ScenarioTotals(Concat(results), <<>>))

\* yearly_data[year][col].append(value), lines 95-96.
AppendTo(d, k, v) ==
    IF HasKey(d, k)
        THEN [i \in DOMAIN d |-> IF d[i].key = k
                                    THEN [key |-> k, val |-> Append(d[i].val, v)]
                                    ELSE d[i]]
        ELSE Append(d, [key |-> k, val |-> <<v>>])

\* Lines 90-96 over the rows of one yearly report.
RECURSIVE CollectReport(_, _)
CollectReport(report, d) ==
    IF report = <<>> THEN d
    ELSE CollectReport(Tail(report),
             AppendTo(d, Head(report).year, [db |-> Head(report).db, mb |-> Head(report).mb]))

\* Lines 79-96.
RECURSIVE YearlyData(_, _)
YearlyData(rows, d) ==
    IF rows = <<>> THEN d
    ELSE YearlyData(Tail(rows), CollectReport(Head(rows).report, d))

\* sum(values) of lines 106-107: left to right, starting from 0.
RECURSIVE SumValues(_, _)
SumValues(values, col) ==
    IF values = <<>> THEN 0
    ELSE FAdd(SumValues(SubSeq(values, 1, Len(values) - 1), col),
              values[Len(values)][col])

\* Lines 102-113.  An average sum(values) / len(values) is kept as its two
\* operands: the float sum and the number of values.
Averages(d) ==
    LET s == SortByKey(d)
    IN  [i \in DOMAIN s |->
            [year |-> s[i].key,
             db |-> SumValues(s[i].val, "db"),
             mb |-> SumValues(s[i].val, "mb"),
             n |-> Len(s[i].val)]]

calculate_cte0(results) == Averages(YearlyData(Concat(results), <<>>))

\* A list of ScenarioResults: rows cut into results after the positions in cuts.
RECURSIVE Split(_, _, _)
Split(rows, cuts, from) ==
    IF from > Len(rows) THEN <<>>
    ELSE LET to == CHOOSE t \in from..Len(rows) :
                       /\ (t = Len(rows) \/ t \in cuts)
                       /\ \A u \in from..(t - 1) : u \notin cuts
         IN  <<SubSeq(rows, from, to)>> \o Split(rows, cuts, to + 1)

\* The yearly reports of the model: one year, one year with a large value,
\* two years.
YearlyReports ==
    {<<[year |-> 1, db |-> 1, mb |-> 0]>>,
     <<[year |-> 1, db |-> 4, mb |-> 0]>>,
     <<[year |-> 1, db |-> 1, mb |-> 0], [year |-> 2, db |-> 1, mb |-> 1]>>}

\* An input row (its Scenario) paired with its output report.
AggRows == {[scenario |-> sc, report |-> rep] : sc \in 1..2, rep \in YearlyReports}

Swap(s, i) ==
    [j \in DOMAIN s |-> IF j = i THEN s[i + 1] ELSE IF j = i + 1 THEN s[i] ELSE s[j]]

aggOthers == <<mainVars, inputDir, remoteVars, nInterrupts, schedVars, ghostVars, cg, ld, rk>>

\* The results arrive in another order: two neighbouring ScenarioResults swap.
SwapResults ==
    /\ agg.out = <<>>
    /\ \E i \in 1..(Len(agg.perm) - 1) :
          agg' = [agg EXCEPT !.perm = Swap(@, i)]
    /\ UNCHANGED aggOthers

\* Two neighbouring rows of one ScenarioResult swap, each with its report.
SwapRows ==
    /\ agg.out = <<>>
    /\ \E r \in DOMAIN agg.perm : \E i \in 1..(Len(agg.perm[r]) - 1) :
          agg' = [agg EXCEPT !.perm[r] = Swap(@, i)]
    /\ UNCHANGED aggOthers

\* Both functions applied to the list as loaded and to the reordered list.
RunAggregate ==
    /\ agg.out = <<>>
    /\ agg' = [agg EXCEPT !.out =
                  <<[totals |-> aggregate_scenario_results(agg.in),
                     totalsPerm |-> aggregate_scenario_results(agg.perm),
                     cte0 |-> calculate_cte0(agg.in),
                     cte0Perm |-> calculate_cte0(agg.perm)]>>]
    /\ UNCHANGED aggOthers

AggInit ==
    /\ RunInit
    /\ inputDir = "ok"
    /\ cg = CgIdle
    /\ \E n \in 1..MaxAggRows :
          \E rows \in [1..n -> AggRows], cuts \in SUBSET (1..(n - 1)) :
              agg = [in |-> Split(rows, cuts, 1), perm |-> Split(rows, cuts, 1), out |-> <<>>]
    /\ ld = LdIdle
    /\ rk = RkIdle

AggNext == SwapResults \/ SwapRows \/ RunAggregate

AggSpec == AggInit /\ [][AggNext]_vars

\* ---- helpers/models.py: ScenarioResult.from_directory, __getitem__ ----------
\* File names are sequences of tokens, so that str.replace can be followed.
\* The identifiers of the model, in the order sorted() gives their input files
\* ('a_input.csv' < 'a_input_input.csv' < 'b_input.csv').
SortedIds == << <<"a">>, <<"a", "_input">>, <<"b">> >>
Ids == {SortedIds[i] : i \in DOMAIN SortedIds}

\* The stem of the input file of identifier id.
InputStem(id) == id \o <<"_input">>

\* stem.replace('_input', ''): every occurrence is removed.
RECURSIVE RemoveAll(_, _)
RemoveAll(stem, tok) ==
    IF stem = <<>> THEN <<>>
    ELSE (IF Head(stem) = tok THEN <<>> ELSE <<Head(stem)>>) \o RemoveAll(Tail(stem), tok)

\* sorted(dir_path.glob('*_input.csv')), line 155.
RECURSIVE InputFiles(_, _)
InputFiles(dir, ids) ==
    IF ids = <<>> THEN <<>>
    ELSE (IF Head(ids) \in DOMAIN dir.input THEN <<Head(ids)>> ELSE <<>>)
         \o InputFiles(dir, Tail(ids))

\* from_files, lines 122-141: one report per row of the output file (a row
\* that does not parse gets an empty report); __init__ only warns when the
\* two lengths differ.  Rows are known by their position, so a file is its
\* number of rows.
from_files(dir, id, uuid) ==
    [uuid |-> uuid, inputs |-> dir.input[id], outputs |-> dir.output[uuid]]

\* The loop of lines 157-170 over the input files.
RECURSIVE LoadAll(_, _)
LoadAll(dir, files) ==
    IF files = <<>> THEN <<>>
    ELSE LET uuid == RemoveAll(InputStem(Head(files)), "_input")
         IN  (IF uuid \in DOMAIN dir.output
                 THEN <<from_files(dir, Head(files), uuid)>>
                 ELSE <<>>)
             \o LoadAll(dir, Tail(files))

from_directory(dir) == LoadAll(dir, InputFiles(dir, SortedIds))

\* __len__, lines 97-98.
ResultLen(r) == r.inputs

\* __getitem__, lines 100-107: the range check is on the inputs, then
\* self.outputs[idx] is a list index.
GetItem(r, idx) ==
    IF idx >= r.inputs THEN "IndexError"
    ELSE IF idx >= r.outputs THEN "IndexError"
    ELSE "pair"

ldOthers == <<mainVars, inputDir, remoteVars, nInterrupts, schedVars, ghostVars, cg, agg, rk>>

FromDirectory ==
    /\ ~ld.done
    /\ ld' = [ld EXCEPT !.loaded = from_directory(ld.dir), !.done = TRUE]
    /\ UNCHANGED ldOthers

\* aggregate_scenario_results, lines 29-34: result[idx] for idx in range(len(result)).
IterateResult ==
    /\ ld.done
    /\ \E k \in DOMAIN ld.loaded :
          \E idx \in {i \in 0..ResultLen(ld.loaded[k]) : i < ResultLen(ld.loaded[k])} :
              ld' = [ld EXCEPT !.probe = <<[result |-> k, idx |-> idx,
                                            outcome |-> GetItem(ld.loaded[k], idx)]>>]
    /\ UNCHANGED ldOthers

\* An output directory: some input files, some output files, each with rows.
LoadInit ==
    /\ RunInit
    /\ inputDir = "ok"
    /\ cg = CgIdle
    /\ agg = AggIdle
    /\ \E inIds \in SUBSET Ids, outIds \in SUBSET Ids :
          \E inRows \in [inIds -> 0..MaxFileRows], outRows \in [outIds -> 0..MaxFileRows] :
              ld = [dir |-> [input |-> inRows, output |-> outRows],
                    loaded |-> <<>>, done |-> FALSE, probe |-> <<>>]
    /\ rk = RkIdle

LoadNext == FromDirectory \/ IterateResult

LoadSpec == LoadInit /\ [][LoadNext]_vars

\* ---- helpers/aggregate.py: run_aggregate, run_cte80_calculation -------------
\* Position of the row sort_values('DB+MB Total') puts first: a smallest total.
\* Which of several equal totals comes first is the sort algorithm's choice;
\* the model keeps the two extreme ones, first and last in frame order.
FirstByTotal(d, tie) ==
    CHOOSE i \in DOMAIN d :
        /\ \A j \in DOMAIN d : d[i].val <= d[j].val
        /\ \A j \in DOMAIN d : d[j].val = d[i].val =>
              IF tie = "first" THEN i <= j ELSE j <= i

\* ranking_df.sort_values('DB+MB Total', ascending=True), line 344.
RECURSIVE SortByTotal(_, _)
SortByTotal(d, tie) ==
    IF d = <<>> THEN <<>>
    ELSE LET m == FirstByTotal(d, tie)
         IN  <<d[m]>> \o SortByTotal([i \in 1..(Len(d) - 1) |-> IF i < m THEN d[i] ELSE d[i + 1]], tie)

\* max(1, int(len(ranking_df) * 0.2)), line 350.  0.2 is the double just
\* above 1/5, and n * 0.2 truncates to the whole part of 2n/10.
TopCount(n) == Max(1, (n * 2) \div 10)

\* Faulty variant: the rank at the threshold is left out.
IsWinnerStrict(rank, count) == rank < count

\* ranking_df['Rank'] <= top_20_percent_count, line 353.
IsWinner(rank, count) == rank <= count

\* Lines 344-353: the ranking frame, rows in rank order.
Ranking(totals, tie) ==
    LET sorted == SortByTotal(totals, tie)
    IN  [i \in DOMAIN sorted |->
            [scenario |-> sorted[i].key,
             total |-> sorted[i].val,
             rank |-> i,
             winner |-> IsWinner(i, TopCount(Len(sorted)))]]

\* run_cte80_calculation, lines 263-264, on the frame read back from the file.
RECURSIVE WinnerScenarios(_)
WinnerScenarios(ranking) ==
    IF ranking = <<>> THEN <<>>
    ELSE (IF Head(ranking).winner = TRUE THEN <<Head(ranking).scenario>> ELSE <<>>)
         \o WinnerScenarios(Tail(ranking))

InList(x, list) == \E i \in DOMAIN list : list[i] = x

\* calculate_cte80, lines 141-161: rows of a scenario not in the list are skipped.
RECURSIVE WinnerYearlyData(_, _, _)
WinnerYearlyData(rows, winners, d) ==
    IF rows = <<>> THEN d
    ELSE WinnerYearlyData(Tail(rows), winners,
             IF ~InList(Head(rows).scenario, winners) THEN d
             ELSE CollectReport(Head(rows).report, d))

calculate_cte80(results, winners) ==
    Averages(WinnerYearlyData(Concat(results), winners, <<>>))

rkOthers == <<mainVars, inputDir, remoteVars, nInterrupts, schedVars, ghostVars, cg, agg, ld>>

\* run_aggregate, lines 341-381.
RunRanking ==
    /\ rk.stage = "loaded"
    /\ \E tie \in {"first", "last"} :
          rk' = [rk EXCEPT !.ranking = Ranking(aggregate_scenario_results(rk.results), tie),
                           !.stage = "ranked"]
    /\ UNCHANGED rkOthers

\* run_cte80_calculation, lines 260-282.
RunCte80 ==
    /\ rk.stage = "ranked"
    /\ rk' = [rk EXCEPT !.winners = WinnerScenarios(rk.ranking),
                        !.cte80 = calculate_cte80(rk.results, WinnerScenarios(rk.ranking)),
                        !.stage = "averaged"]
    /\ UNCHANGED rkOthers

\* The reports of the scenarios of a ranking.
RankReports ==
    {<<[year |-> 1, db |-> 1, mb |-> 0]>>,
     <<[year |-> 1, db |-> 1, mb |-> 0], [year |-> 2, db |-> 1, mb |-> 1]>>}

\* One result file with one row for each of n scenarios.
RankInit ==
    /\ RunInit
    /\ inputDir = "ok"
    /\ cg = CgIdle
    /\ agg = AggIdle
    /\ ld = LdIdle
    /\ \E n \in 1..MaxScenarios : \E rep \in [1..n -> RankReports] :
          rk = [results |-> <<[i \in 1..n |-> [scenario |-> i, report |-> rep[i]]]>>,
                ranking |-> <<>>, winners |-> <<>>, cte80 |-> <<>>, stage |-> "loaded"]

RankNext == RunRanking \/ RunCte80

RankSpec == RankInit /\ [][RankNext]_vars

\* ---- properties -----------------------------------------------------------------
Count(op) == Cardinality({i \in DOMAIN calls : calls[i] = op})

Before(a, b) ==
    \A i \in DOMAIN calls : calls[i] = b => \E j \in 1..(i - 1) : calls[j] = a

\* run_batch has ended (returned to main, or the process is gone) after the
\* remote pipeline was created.
RunBatchEnded ==
    /\ pc \in {"step2_done", "aggregate", "done", "exit"}
    /\ pipeline # "none"

\* C1: on every exit path of run_batch once the pipeline exists (normal
\* completion, an exception, a SIGINT), dispose is invoked exactly once and
\* close exactly once, dispose before close.
C1_DisposeAndCloseOnceEach ==
    (RunBatchEnded /\ nInterrupts <= 1) =>
        /\ Count("dispose") = 1
        /\ Count("close") = 1
        /\ Before("dispose", "close")

\* C2: whenever run_batch has ended, on whatever path, no accepted chunk
\* result is left unflushed in the processor's buffer.
C2_BufferFlushedOnExit ==
    (RunBatchEnded /\ nInterrupts <= 1) => buffer = 0

\* C3: if an interrupt was handled mid-run with chunks in flight, then over
\* the whole run cancel was invoked exactly once.
C3_CancelExactlyOnce ==
    (pc = "exit" /\ intInFlight) => Count("cancel") = 1

\* C4: an exception raised by a remote call or the sink inside run_batch is
\* caught there (nothing propagates); if the pipeline was open when it was
\* caught, cancel precedes any close and dispose is not invoked; and the error
\* path (no signal) and the interrupt path (one signal, mid-run) both end with
\* the cleanup sequence cancel, close.
C4_ErrorPathCancelsBeforeClose ==
    /\ caughtOpen => (Before("cancel", "close") /\ Count("dispose") = 0)
    /\ (RunBatchEnded /\ fatal /\ nInterrupts = 0) =>
          /\ exc = "none"
          /\ calls = IF caughtOpen THEN <<"cancel", "close">> ELSE <<"dispose", "close">>
    /\ (RunBatchEnded /\ intInFlight /\ nInterrupts = 1) => calls = <<"cancel", "close">>

C4_Witness ==
    /\ RunBatchEnded
    /\ fatal
    /\ caughtOpen
    /\ nInterrupts = 0
    /\ inFlight > 0
    /\ calls = <<"cancel", "close">>

\* C5: after a fatal error during the run (and no signal), main neither reports the batch
\* step completed nor goes on to the aggregation steps, and the process ends
\* with a non-zero status.
C5_FatalErrorReachesOperator ==
    (fatal /\ pipeline # "none" /\ nInterrupts = 0) =>
        /\ ~reported
        /\ ~aggregated
        /\ (pc = "exit" => exitCode # 0)

\* C6: with a missing, unreadable or empty input directory no remote job is
\* created and no chunk is submitted.
C6_NoRemoteWorkOnBadSource ==
    inputDir # "ok" => (pipeline = "none" /\ submitted = 0)

\* C7: at every instant the in-flight count is at most target * max_capacity.
C7_AdmissionBound ==
    inFlight * 10 <= TargetTenths * MaxRunners

\* Admission is saturated by two submitters with chunks still to come.
C7_Witness ==
    /\ inFlight * 10 = TargetTenths * MaxRunners
    /\ holding = ThreadsUp
    /\ submitted < NumChunk

\* C8: the run is Completed only with the source exhausted, every submission
\* terminal and the sink empty; and process_chunks called save after the
\* worker loops exactly when the sink was non-empty.
C8_CompletedOnlyWhenDrained ==
    /\ runState = "Completed" =>
          /\ submitted = NumChunk
          /\ holding = 0 /\ running = 0 /\ inFlight = 0
          /\ saved + failed = NumChunk
          /\ buffer = 0
          /\ finalSave \in {"saved", "skipped"}
    /\ finalSave \in {"saved", "failed"} => bufAtReturn > 0
    /\ finalSave = "skipped" => bufAtReturn = 0

C8_Witness ==
    /\ runState = "Completed"
    /\ finalSave = "saved"
    /\ bufAtReturn > 0
    /\ saved + failed = NumChunk

\* C9: with a readable source, every chunk eventually reaches a terminal
\* state and the run completes; with no failed chunk the flushed output then
\* holds 864 rows.
RunDone ==
    /\ pc = "exit"
    /\ runState = "Completed"
    /\ saved + failed = NumChunk
    /\ (failed = 0 => saved * ChunkSize = 864)

C9_RunEventuallyCompletes == (inputDir = "ok") ~> RunDone

C9_Witness ==
    /\ pc = "exit"
    /\ runState = "Completed"
    /\ failed = 0
    /\ saved * ChunkSize = 864

\* C10: failed chunks free their capacity and do not fail the run; every
\* completed chunk is accepted once, and at Completed the results of exactly
\* the submitted chunks that did not fail are in storage.
C10_PartialFailureCompletes ==
    /\ inFlight = holding + running
    /\ nAccept = buffer + saved
    /\ nAccept + failed + inFlight = submitted
    /\ runState = "Completed" => (saved = submitted - failed /\ nAccept = saved)

C10_Witness ==
    /\ runState = "Completed"
    /\ failed > 0
    /\ saved > 0
    /\ saved = submitted - failed

\* C11: the chunks emitted so far each hold at most `size` records and,
\* concatenated, are the source's records up to the generator's position, in
\* source order, none twice, none skipped; at end-of-stream they are exactly
\* the first min(N, size * count) records.
C11_ChunksCoverPrefix ==
    /\ \A k \in DOMAIN cg.chunks : Len(cg.chunks[k]) \in 1..cg.size
    /\ Len(cg.chunks) <= cg.count
    /\ Concat(cg.chunks) = SubSeq(cg.records, 1, cg.pos - 1)
    /\ cg.done =>
          Concat(cg.chunks) =
              SubSeq(cg.records, 1, Min(Len(cg.records), cg.size * cg.count))

\* End-of-stream after `count` full chunks, records left over and dropped.
C11_Witness ==
    /\ cg.done
    /\ Len(cg.chunks) = cg.count
    /\ cg.count >= 2
    /\ cg.size >= 2
    /\ Len(cg.records) > cg.size * cg.count

\* The values summed are so small that no addition rounds.
RECURSIVE ReportTotal(_)
ReportTotal(report) ==
    IF report = <<>> THEN 0
    ELSE Head(report).db + Head(report).mb + ReportTotal(Tail(report))

RECURSIVE GrandTotal(_)
GrandTotal(rows) ==
    IF rows = <<>> THEN 0 ELSE ReportTotal(Head(rows).report) + GrandTotal(Tail(rows))

SumsExact == GrandTotal(Concat(agg.in)) <= Pow2(MantissaBits)

Keys(d, f) == [i \in DOMAIN d |-> d[i][f]]

\* C12 (as stated): for any reordering of the ScenarioResults and of the rows
\* within them, aggregate_scenario_results returns the same per-scenario
\* totals and calculate_cte0 the same per-year averages.
C12_OrderIndependent ==
    agg.out # <<>> =>
        /\ agg.out[1].totalsPerm = agg.out[1].totals
        /\ agg.out[1].cte0Perm = agg.out[1].cte0

\* C12 (amended): under any such reordering the two functions return the same
\* scenarios and the same years, in the same order, and each year averages
\* the same number of values; the totals and averages themselves are the same
\* whenever no floating-point addition rounds.
C12_OrderIndependentUpToRounding ==
    agg.out # <<>> =>
        /\ Keys(agg.out[1].totalsPerm, "key") = Keys(agg.out[1].totals, "key")
        /\ Keys(agg.out[1].cte0Perm, "year") = Keys(agg.out[1].cte0, "year")
        /\ Keys(agg.out[1].cte0Perm, "n") = Keys(agg.out[1].cte0, "n")
        /\ SumsExact =>
              /\ agg.out[1].totalsPerm = agg.out[1].totals
              /\ agg.out[1].cte0Perm = agg.out[1].cte0

\* Two results swapped, two scenarios and two years present, the second
\* scenario first in the list as loaded, sums exact.
C12_Witness ==
    /\ agg.out # <<>>
    /\ Len(agg.in) >= 2
    /\ agg.perm # agg.in
    /\ SumsExact
    /\ Len(agg.out[1].totals) = 2
    /\ Len(agg.out[1].cte0) = 2
    /\ agg.in[1][1].scenario = 2
    /\ agg.perm[1][1].scenario = 1

\* Identifiers with both files in the directory.
BothFiles == {id \in Ids : id \in DOMAIN ld.dir.input /\ id \in DOMAIN ld.dir.output}

\* No file name of the directory holds '_input' inside its identifier.
PlainIds == \A id \in DOMAIN ld.dir.input : RemoveAll(id, "_input") = id

\* C13: from_directory loads exactly the identifiers that have both an input
\* and an output file (here: in a directory whose identifiers do not contain
\* '_input'), and every result[i] evaluated for a loaded result and an i in
\* 0..len(result)-1 is defined.
C13_LoadedPairsIndexable ==
    (ld.done /\ PlainIds) =>
        /\ {ld.loaded[k].uuid : k \in DOMAIN ld.loaded} = BothFiles
        /\ Len(ld.loaded) = Cardinality(BothFiles)
        /\ ld.probe # <<>> => ld.probe[1].outcome = "pair"

\* The rows of the winners, in the order of the results.
RECURSIVE RowsOf(_, _)
RowsOf(rows, scenarios) ==
    IF rows = <<>> THEN <<>>
    ELSE (IF Head(rows).scenario \in scenarios THEN <<Head(rows)>> ELSE <<>>)
         \o RowsOf(Tail(rows), scenarios)

RankedWinners == {rk.ranking[i].scenario : i \in {j \in DOMAIN rk.ranking : rk.ranking[j].winner}}

\* C14: for n >= 1 distinct scenarios the ranks are 1..n, one per scenario,
\* in ascending order of total; exactly max(1, floor(n / 5)) scenarios are
\* winners and no winner's total exceeds a non-winner's; calculate_cte80
\* averages, per year, the records of exactly the winners' rows.
C14_RankingAndWinners ==
    LET R == rk.ranking
        n == Len(rk.results[1])
        totals == aggregate_scenario_results(rk.results)
    IN  /\ rk.stage \in {"ranked", "averaged"} =>
              /\ Len(R) = n
              /\ {R[i].scenario : i \in DOMAIN R} = 1..n
              /\ \A i \in DOMAIN R : R[i].rank = i
              /\ \A i \in DOMAIN R : \E k \in DOMAIN totals :
                    totals[k].key = R[i].scenario /\ totals[k].val = R[i].total
              /\ \A i, j \in DOMAIN R : i < j => R[i].total <= R[j].total
              /\ Cardinality(RankedWinners) = Max(1, n \div 5)
              /\ \A i, j \in DOMAIN R :
                    (R[i].winner /\ ~R[j].winner) => R[i].total <= R[j].total
        /\ rk.stage = "averaged" =>
              rk.cte80 = calculate_cte0(<<RowsOf(rk.results[1], RankedWinners)>>)

\* Ten scenarios, two winners, a non-winner tied with a winner, and a year
\* that only non-winners report.
C14_Witness ==
    /\ rk.stage = "averaged"
    /\ Len(rk.ranking) = 10
    /\ Len(rk.winners) = 2
    /\ rk.ranking[2].total = rk.ranking[3].total
    /\ rk.ranking[10].total > rk.ranking[1].total
    /\ Len(rk.cte80) = 1
    /\ rk.cte80[1].n = 2

\* C15: cancel is only ever invoked on a pipeline that has not yet been
\* disposed or closed: in the sequence of remote calls no dispose and no
\* close comes before a cancel (here: in runs with a readable source in
\* which no remote call and no save fails).
C15_CancelOnlyBeforeRelease ==
    (inputDir = "ok" /\ ~fatal) =>
        \A i \in DOMAIN calls :
            calls[i] = "cancel" =>
                \A j \in 1..(i - 1) : calls[j] \notin {"dispose", "close"}

====
